---- MODULE Spec2Model ----
(***************************************************************************)
(* CrosswordCreator (generate.py): node consistency, AC-3 and the          *)
(* backtracking search, as a state machine.                                *)
(*                                                                         *)
(* Words are sequences of letters (letters are numbers 1..NLetters).       *)
(* Python indexes words from 0 and TLA+ sequences from 1: overlap indices  *)
(* keep Python's numbering and a word is read at w[i + 1].                 *)
(*                                                                         *)
(* Python leaves the iteration order of a set to the hashes of its         *)
(* elements. `order` is the order of the variable set (hence of the keys   *)
(* of the `domains` dict and of every neighbors() set) and may be any      *)
(* permutation of the variables. `words` lists the vocabulary in the order *)
(* of the set crossword.words; every domain is a copy of that set with     *)
(* words removed and iterates in the same order. The runs of solve()       *)
(* explore the orders WordOrders gives.                                    *)
(*                                                                         *)
(* Spec is solve() on every grid of GridHeight x GridWidth cells with      *)
(* every vocabulary of at most MaxWords words. SpecWide is solve() on the  *)
(* grids of FnHeight x FnWidth cells, SpecLive is solve() under weak       *)
(* fairness of its next step. SpecFn calls consistent(),                   *)
(* select_unassigned_variable() and revise() directly. A step that raises  *)
(* an exception leads to pc = "error".                                     *)
(***************************************************************************)
EXTENDS Integers, Sequences, FiniteSets, TLC

VARIABLES
    words,       \* crossword.words: the vocabulary, in its iteration order
    order,       \* the keys of self.domains in dict order (crossword.variables)
    domains,     \* self.domains: variable -> set of words
    arcs,        \* the work list of ac3()
    ac3ret,      \* what ac3() returned (None while it has not returned)
    assignment,  \* the dict shared by every backtrack() call
    stack,       \* the active backtrack() calls past their completeness test:
                 \* var, ordered_values, the number of values the loop has
                 \* taken, and the assignment as it was on entry
    ret,         \* the value a backtrack() call has just returned
    result,      \* what solve() returned
    out,         \* the value returned by a helper that was called directly
    pc           \* position in solve(), or the helper that is called directly

vars == <<words, order, domains, arcs, ac3ret, assignment, stack, ret, result, out, pc>>

---------------------------------------------------------------------------
(* Bounds of the model *)

GridHeight == 2
GridWidth == 2
NLetters == 3
MaxWords == 4
FnHeight == 2
FnWidth == 3
NFnLetters == 2
MaxWideWords == 3
MaxLiveWords == 3

Letters == 1..NLetters
MaxLen == IF GridHeight > GridWidth THEN GridHeight ELSE GridWidth
WordUniverse == UNION {[1..n -> Letters] : n \in 1..MaxLen}
Cells == (0..(GridHeight - 1)) \X (0..(GridWidth - 1))
FnCells == (0..(FnHeight - 1)) \X (0..(FnWidth - 1))
FnMaxLen == IF FnHeight > FnWidth THEN FnHeight ELSE FnWidth
(* the words the domains given to select_unassigned_variable are made of *)
FnWords == {[k \in 1..n |-> l] : n \in 1..FnMaxLen, l \in 1..NFnLetters}
Vocabularies == {ws \in SUBSET WordUniverse : Cardinality(ws) <= MaxWords}
(* the vocabularies of the runs of solve() on the wider grid *)
WideUniverse == UNION {[1..n -> 1..NFnLetters] : n \in 1..FnMaxLen}
WideVocabularies == {ws \in SUBSET WideUniverse : Cardinality(ws) <= MaxWideWords}

(* Python's None, and a value that is not None *)
None == <<>>
Some(x) == <<x>>

RECURSIVE Perms(_)
Perms(S) ==
    IF S = {} THEN {<<>>}
    ELSE UNION {{<<x>> \o p : p \in Perms(S \ {x})} : x \in S}
Range(f) == {f[k] : k \in DOMAIN f}

Reverse(seq) == [k \in DOMAIN seq |-> seq[Len(seq) + 1 - k]]

(* the words of ws in ascending order: shorter first, then by letters *)
RECURSIVE WordRank(_)
WordRank(w) ==
    IF w = <<>> THEN 0
    ELSE WordRank(SubSeq(w, 1, Len(w) - 1)) * (NLetters + 1) + w[Len(w)]

RECURSIVE Ascending(_)
Ascending(ws) ==
    IF ws = {} THEN <<>>
    ELSE LET first == CHOOSE w \in ws : \A u \in ws : WordRank(w) <= WordRank(u)
         IN  <<first>> \o Ascending(ws \ {first})

(* the iteration orders of the vocabulary that the runs of solve() explore *)
WordOrders(ws) == {Ascending(ws), Reverse(Ascending(ws))}

---------------------------------------------------------------------------
(* The constraint graph (the crossword module) *)

RunLength(s, i, j, di, dj) ==
    CHOOSE l \in 1..Cardinality(s) :
        /\ \A k \in 0..(l - 1) : <<i + k * di, j + k * dj>> \in s
        /\ <<i + l * di, j + l * dj>> \notin s

Variable(i, j, direction, length) ==
    [i |-> i, j |-> j, direction |-> direction, length |-> length]

(* Crossword.__init__: a variable per run of more than one fillable cell *)
VariablesOf(s) ==
    {Variable(c[1], c[2], "down", RunLength(s, c[1], c[2], 1, 0)) :
        c \in {c \in s : <<c[1] - 1, c[2]>> \notin s /\ RunLength(s, c[1], c[2], 1, 0) > 1}}
    \cup
    {Variable(c[1], c[2], "across", RunLength(s, c[1], c[2], 0, 1)) :
        c \in {c \in s : <<c[1], c[2] - 1>> \notin s /\ RunLength(s, c[1], c[2], 0, 1) > 1}}

(* crossword.overlaps[x, y]: None, or the pair (i, j) of 0-based indices of *)
(* the cell the two variables share                                         *)
Overlap(x, y) ==
    IF x.direction = y.direction THEN None
    ELSE LET a == IF x.direction = "across" THEN x ELSE y
             d == IF x.direction = "across" THEN y ELSE x
             ia == d.j - a.j
             id == a.i - d.i
         IN  IF ia \in 0..(a.length - 1) /\ id \in 0..(d.length - 1)
             THEN IF x.direction = "across" THEN <<ia, id>> ELSE <<id, ia>>
             ELSE None

Vars == Range(order)

(* crossword.neighbors(var) *)
Neighbors(var) == {v \in Vars : v # var /\ Overlap(v, var) # None}

(* a set of variables in the iteration order of the variable set *)
InOrder(S) == SelectSeq(order, LAMBDA v : v \in S)

(* a set of words in the iteration order of the vocabulary *)
InWordOrder(S) == SelectSeq(words, LAMBDA w : w \in S)

---------------------------------------------------------------------------
(* enforce_node_consistency *)

(* mutant: the test `len(word) > var.length` in place of `!=` *)
NodeConsistentAtMost(dom) ==
    [v \in DOMAIN dom |-> {w \in dom[v] : ~(Len(w) > v.length)}]

NodeConsistent(dom) ==
    [v \in DOMAIN dom |-> {w \in dom[v] : ~(Len(w) # v.length)}]

(* mutant: revise without its test `word_x != word_y` *)
ReviseSameWord(dom, x, y) ==
    IF Overlap(x, y) = None THEN dom[x]
    ELSE {word_x \in dom[x] :
             \E word_y \in dom[y] :
                 word_x[Overlap(x, y)[1] + 1] = word_y[Overlap(x, y)[2] + 1]}

(* mutant: the indices of the overlap are taken the other way round *)
ReviseSwappedIndices(dom, x, y) ==
    IF Overlap(x, y) = None THEN dom[x]
    ELSE {word_x \in dom[x] :
             \E word_y \in dom[y] :
                 /\ word_x[Overlap(x, y)[2] + 1] = word_y[Overlap(x, y)[1] + 1]
                 /\ word_x # word_y}

(* revise(x, y): the domain of x it leaves *)
Revise(dom, x, y) ==
    IF Overlap(x, y) = None THEN dom[x]
    ELSE LET i == Overlap(x, y)[1]
             j == Overlap(x, y)[2]
         IN  {word_x \in dom[x] :
                 \E word_y \in dom[y] :
                     word_x[i + 1] = word_y[j + 1] /\ word_x # word_y}

(* mutant: a revision that prunes the domain of y against x as well *)
ReviseBothEnds(dom, x, y) ==
    [dom EXCEPT ![x] = Revise(dom, x, y), ![y] = Revise(dom, y, x)]

(* revise(x, y): self.domains as it leaves it *)
ReviseDomains(dom, x, y) == [dom EXCEPT ![x] = Revise(dom, x, y)]

(* mutant: revise reports a revision whatever it did *)
RevisedAlways(dom, x, y) == TRUE

(* revise(x, y): its return value *)
Revised(dom, x, y) == Revise(dom, x, y) # dom[x]

(* revise(x, y) raises IndexError: a word is read past its end before the  *)
(* scan of domain(y) finds a word that supports word_x                     *)
ReviseRaises(dom, x, y) ==
    /\ Overlap(x, y) # None
    /\ LET i == Overlap(x, y)[1]
           j == Overlap(x, y)[2]
           ys == InWordOrder(dom[y])
       IN  \E word_x \in dom[x] :
               \E k \in DOMAIN ys :
                   /\ i + 1 > Len(word_x) \/ j + 1 > Len(ys[k])
                   /\ \A m \in 1..(k - 1) :
                          /\ i + 1 <= Len(word_x)
                          /\ j + 1 <= Len(ys[m])
                          /\ ~(word_x[i + 1] = ys[m][j + 1] /\ word_x # ys[m])

RECURSIVE Flatten(_)
Flatten(ss) == IF ss = <<>> THEN <<>> ELSE Head(ss) \o Flatten(Tail(ss))

(* ac3(arcs=None): the initial list of all arcs *)
AllArcs ==
    Flatten([k \in DOMAIN order |->
        LET x == order[k]
            ns == InOrder(Neighbors(x))
        IN  [n \in DOMAIN ns |-> <<x, ns[n]>>]])

(* mutant: the arcs from x are appended in place of the arcs to x *)
RequeueOutgoing(x, y) ==
    LET ns == InOrder(Neighbors(x) \ {y})
    IN  [n \in DOMAIN ns |-> <<x, ns[n]>>]

(* mutant: a revision that appends no arc *)
RequeueNothing(x, y) == <<>>

(* ac3: the arcs appended after domain(x) was revised against y *)
Requeue(x, y) ==
    LET ns == InOrder(Neighbors(x) \ {y})
    IN  [n \in DOMAIN ns |-> <<ns[n], x>>]

---------------------------------------------------------------------------
(* list.sort / sorted: a stable sort of seq by key, a function to numbers *)

RECURSIVE Insert(_, _, _)
Insert(sorted, e, key) ==
    IF sorted = <<>> THEN <<e>>
    ELSE IF key[e] < key[Head(sorted)] THEN <<e>> \o sorted
    ELSE <<Head(sorted)>> \o Insert(Tail(sorted), e, key)

RECURSIVE SortedBy(_, _)
SortedBy(seq, key) ==
    IF seq = <<>> THEN <<>>
    ELSE Insert(SortedBy(SubSeq(seq, 1, Len(seq) - 1), key), seq[Len(seq)], key)

(* max(seq, key=...): the first element of seq whose key is the largest *)
FirstMax(seq, key) ==
    seq[CHOOSE k \in DOMAIN seq :
            /\ \A m \in DOMAIN seq : key[seq[m]] <= key[seq[k]]
            /\ \A m \in 1..(k - 1) : key[seq[m]] < key[seq[k]]]

RECURSIVE SumSeq(_)
SumSeq(ns) == IF ns = <<>> THEN 0 ELSE Head(ns) + SumSeq(Tail(ns))

---------------------------------------------------------------------------
(* assignment_complete *)

(* mutant: the count of the variables is one too many *)
AssignmentCompleteOffByOne(a) == Cardinality(DOMAIN a) = Cardinality(Vars) + 1

(* mutant: only the variables that still have candidates are counted *)
AssignmentCompleteOfCandidates(a) ==
    Cardinality(DOMAIN a) = Cardinality({v \in Vars : domains[v] # {}})

AssignmentComplete(a) == Cardinality(DOMAIN a) = Cardinality(Vars)

(* mutant: consistent without its test of the lengths *)
ConsistentNoLength(a) ==
    LET values == {a[v] : v \in DOMAIN a}
    IN  IF Cardinality(values) # Cardinality(DOMAIN a) THEN FALSE
        ELSE ~ \E var_1 \in DOMAIN a :
                 \E var_2 \in Neighbors(var_1) \cap DOMAIN a :
                     LET word_x == a[var_1]
                         word_y == a[var_2]
                         i == Overlap(var_1, var_2)[1]
                         j == Overlap(var_1, var_2)[2]
                     IN  \/ i + 1 > Len(word_x)
                         \/ j + 1 > Len(word_y)
                         \/ word_x[i + 1] # word_y[j + 1]
                         \/ word_x = word_y

(* mutant: consistent without its test that the values are distinct *)
ConsistentNoDistinct(a) ==
    IF \E variable \in DOMAIN a : Len(a[variable]) # variable.length THEN FALSE
    ELSE ~ \E var_1 \in DOMAIN a :
             \E var_2 \in Neighbors(var_1) \cap DOMAIN a :
                 LET word_x == a[var_1]
                     word_y == a[var_2]
                     i == Overlap(var_1, var_2)[1]
                     j == Overlap(var_1, var_2)[2]
                 IN  word_x[i + 1] # word_y[j + 1] \/ word_x = word_y

(* consistent *)
Consistent(a) ==
    LET values == {a[v] : v \in DOMAIN a}
    IN  IF Cardinality(values) # Cardinality(DOMAIN a) THEN FALSE
        ELSE IF \E variable \in DOMAIN a : Len(a[variable]) # variable.length THEN FALSE
        ELSE ~ \E var_1 \in DOMAIN a :
                 \E var_2 \in Neighbors(var_1) \cap DOMAIN a :
                     LET word_x == a[var_1]
                         word_y == a[var_2]
                         i == Overlap(var_1, var_2)[1]
                         j == Overlap(var_1, var_2)[2]
                     IN  word_x[i + 1] # word_y[j + 1] \/ word_x = word_y

(* mutant: only the neighbours that are not assigned are scanned *)
ScannedUnassignedNeighbors(var, a) == Neighbors(var) \ DOMAIN a

(* order_domain_values: the neighbours whose domains are scanned *)
ScannedNeighbors(var, a) == Neighbors(var)

(* order_domain_values: value_count[word_x] *)
ValueCount(dom, var, a, word_x) ==
    LET ns == InOrder(ScannedNeighbors(var, a))
    IN  SumSeq([n \in DOMAIN ns |->
            LET i == Overlap(var, ns[n])[1]
                j == Overlap(var, ns[n])[2]
            IN  Cardinality({word_y \in dom[ns[n]] : word_x[i + 1] # word_y[j + 1]})])

(* order_domain_values raises IndexError: a word of domain(var) or of a    *)
(* neighbour's domain is read past its end                                 *)
OrderDomainValuesRaises(dom, var) ==
    \E neighbor \in Neighbors(var) :
        /\ dom[var] # {}
        /\ dom[neighbor] # {}
        /\ \/ \E word_x \in dom[var] : Overlap(var, neighbor)[1] + 1 > Len(word_x)
           \/ \E word_y \in dom[neighbor] : Overlap(var, neighbor)[2] + 1 > Len(word_y)

(* mutant: every vocabulary word of the variable's length is a value *)
OrderWordsOfLength(dom, var, a) ==
    InWordOrder({w \in Range(words) : Len(w) = var.length})

(* order_domain_values *)
OrderDomainValues(dom, var, a) ==
    LET value_count == [w \in dom[var] |-> ValueCount(dom, var, a, w)]
    IN  SortedBy(InWordOrder(dom[var]), value_count)

(* mutant: min() in place of max() in the tie-break on the degree *)
SelectLowestDegree(dom, a) ==
    LET remaining == [v \in Vars |-> Cardinality(dom[v])]
        degree == [v \in Vars |-> 0 - Cardinality(Neighbors(v))]
        unassigned_vars == SortedBy(InOrder(Vars \ DOMAIN a), remaining)
        min_remaining_values == remaining[unassigned_vars[1]]
        min_remaining_variables ==
            SelectSeq(unassigned_vars, LAMBDA v : remaining[v] = min_remaining_values)
    IN  IF Len(min_remaining_variables) = 1 THEN min_remaining_variables[1]
        ELSE FirstMax(min_remaining_variables, degree)

(* mutant: the assigned variables are candidates as well *)
SelectAmongAll(dom, a) ==
    LET remaining == [v \in Vars |-> Cardinality(dom[v])]
        degree == [v \in Vars |-> Cardinality(Neighbors(v))]
        all_vars == SortedBy(InOrder(Vars), remaining)
        min_remaining_values == remaining[all_vars[1]]
        min_remaining_variables ==
            SelectSeq(all_vars, LAMBDA v : remaining[v] = min_remaining_values)
    IN  IF Len(min_remaining_variables) = 1 THEN min_remaining_variables[1]
        ELSE FirstMax(min_remaining_variables, degree)

(* select_unassigned_variable, called with a variable left unassigned *)
SelectUnassignedVariable(dom, a) ==
    LET remaining == [v \in Vars |-> Cardinality(dom[v])]
        degree == [v \in Vars |-> Cardinality(Neighbors(v))]
        unassigned_vars == SortedBy(InOrder(Vars \ DOMAIN a), remaining)
        min_remaining_values == remaining[unassigned_vars[1]]
        min_remaining_variables ==
            SelectSeq(unassigned_vars, LAMBDA v : remaining[v] = min_remaining_values)
    IN  IF Len(min_remaining_variables) = 1 THEN min_remaining_variables[1]
        ELSE FirstMax(min_remaining_variables, degree)

(* mutant: the value tried becomes the only candidate of var *)
DomainsNarrowedToValue(dom, var, value) == [dom EXCEPT ![var] = {value}]

(* backtrack: self.domains after `assignment[var] = value` and the call of *)
(* consistent(); the value goes into the assignment, not into the domains  *)
DomainsAfterTry(dom, var, value) == dom

(* assignment[var] = value *)
Assign(a, var, value) ==
    [v \in DOMAIN a \cup {var} |-> IF v = var THEN value ELSE a[v]]

---------------------------------------------------------------------------
(* solve() *)

EmptyAssignment == [v \in {} |-> <<>>]

Init ==
    /\ \E ws \in Vocabularies : words \in WordOrders(ws)
    /\ \E s \in SUBSET Cells : order \in Perms(VariablesOf(s))
    /\ domains = [v \in Range(order) |-> Range(words)]
    /\ arcs = <<>>
    /\ ac3ret = None
    /\ assignment = EmptyAssignment
    /\ stack = <<>>
    /\ ret = None
    /\ result = None
    /\ out = None
    /\ pc = "solve"

(* solve: self.enforce_node_consistency() *)
EnforceNodeConsistency ==
    /\ pc = "solve"
    /\ domains' = NodeConsistent(domains)
    /\ pc' = "ac3_begin"
    /\ UNCHANGED <<words, order, arcs, ac3ret, assignment, stack, ret, result, out>>

(* solve: self.ac3(), up to its loop *)
Ac3Begin ==
    /\ pc = "ac3_begin"
    /\ arcs' = AllArcs
    /\ pc' = "ac3"
    /\ UNCHANGED <<words, order, domains, ac3ret, assignment, stack, ret, result, out>>

(* ac3: one iteration of `while arcs`. An exception (IndexError in revise, *)
(* KeyError in neighbors_x.remove(y)) leaves solve().                      *)
Ac3Step ==
    /\ pc = "ac3"
    /\ arcs # <<>>
    /\ LET x == Head(arcs)[1]
           y == Head(arcs)[2]
       IN  IF ReviseRaises(domains, x, y)
           THEN /\ pc' = "error"
                /\ arcs' = Tail(arcs)
                /\ UNCHANGED <<domains, ac3ret>>
           ELSE /\ domains' = ReviseDomains(domains, x, y)
                /\ IF Revised(domains, x, y)
                   THEN IF domains'[x] = {}
                        THEN /\ ac3ret' = Some(FALSE)
                             /\ arcs' = <<>>
                             /\ pc' = "call"
                        ELSE IF y \notin Neighbors(x)
                        THEN /\ pc' = "error"
                             /\ arcs' = Tail(arcs)
                             /\ UNCHANGED ac3ret
                        ELSE /\ arcs' = Tail(arcs) \o Requeue(x, y)
                             /\ UNCHANGED <<ac3ret, pc>>
                   ELSE /\ arcs' = Tail(arcs)
                        /\ UNCHANGED <<ac3ret, pc>>
    /\ UNCHANGED <<words, order, assignment, stack, ret, result, out>>

(* ac3: the list is empty, return True; solve goes on to backtrack(dict()) *)
Ac3Return ==
    /\ pc = "ac3"
    /\ arcs = <<>>
    /\ ac3ret' = Some(TRUE)
    /\ pc' = "call"
    /\ UNCHANGED <<words, order, domains, arcs, assignment, stack, ret, result, out>>

(* backtrack: the assignment is complete, return it *)
BacktrackComplete ==
    /\ pc = "call"
    /\ AssignmentComplete(assignment)
    /\ ret' = Some(assignment)
    /\ pc' = "ret"
    /\ UNCHANGED <<words, order, domains, arcs, ac3ret, assignment, stack, result, out>>

(* backtrack: select a variable and order its values. With no variable    *)
(* left, select_unassigned_variable returns None and the lookup of its     *)
(* neighbours raises; order_domain_values may raise IndexError.            *)
BacktrackSelect ==
    /\ pc = "call"
    /\ ~AssignmentComplete(assignment)
    /\ IF Vars \ DOMAIN assignment = {}
       THEN /\ pc' = "error"
            /\ UNCHANGED stack
       ELSE \E var \in {SelectUnassignedVariable(domains, assignment)} :
                IF OrderDomainValuesRaises(domains, var)
                THEN /\ pc' = "error"
                     /\ UNCHANGED stack
                ELSE \E ordered_values \in {OrderDomainValues(domains, var, assignment)} :
                         /\ stack' = <<[var |-> var, ordered_values |-> ordered_values,
                                        taken |-> 0, entry |-> assignment]>> \o stack
                         /\ pc' = "loop"
    /\ UNCHANGED <<words, order, domains, arcs, ac3ret, assignment, ret, result, out>>

(* backtrack: one iteration of `for value in ordered_values` *)
BacktrackTry ==
    /\ pc = "loop"
    /\ Head(stack).taken < Len(Head(stack).ordered_values)
    /\ LET var == Head(stack).var
           value == Head(stack).ordered_values[Head(stack).taken + 1]
       IN  /\ assignment' = Assign(assignment, var, value)
           /\ domains' = DomainsAfterTry(domains, var, value)
           /\ stack' = <<[Head(stack) EXCEPT !.taken = @ + 1]>> \o Tail(stack)
           /\ pc' = IF Consistent(assignment') THEN "call" ELSE "loop"
    /\ UNCHANGED <<words, order, arcs, ac3ret, ret, result, out>>

(* backtrack: the values are exhausted, return None *)
BacktrackExhausted ==
    /\ pc = "loop"
    /\ Head(stack).taken = Len(Head(stack).ordered_values)
    /\ stack' = Tail(stack)
    /\ ret' = None
    /\ pc' = "ret"
    /\ UNCHANGED <<words, order, domains, arcs, ac3ret, assignment, result, out>>

(* backtrack: `result = self.backtrack(assignment)` in the caller's loop *)
BacktrackResume ==
    /\ pc = "ret"
    /\ stack # <<>>
    /\ IF ret # None
       THEN /\ stack' = Tail(stack)
            /\ pc' = "ret"
       ELSE /\ pc' = "loop"
            /\ UNCHANGED stack
    /\ UNCHANGED <<words, order, domains, arcs, ac3ret, assignment, ret, result, out>>

(* solve: return what the outermost backtrack() returned *)
SolveReturn ==
    /\ pc = "ret"
    /\ stack = <<>>
    /\ result' = ret
    /\ pc' = "done"
    /\ UNCHANGED <<words, order, domains, arcs, ac3ret, assignment, stack, ret, out>>

Next ==
    \/ EnforceNodeConsistency
    \/ Ac3Begin
    \/ Ac3Step
    \/ Ac3Return
    \/ BacktrackComplete
    \/ BacktrackSelect
    \/ BacktrackTry
    \/ BacktrackExhausted
    \/ BacktrackResume
    \/ SolveReturn

Spec == Init /\ [][Next]_vars

(* the runs of solve() whose termination is checked: the vocabularies of  *)
(* at most MaxLiveWords words of MaxLen letters in ascending order, one   *)
(* order of the variables                                                 *)
InitLive ==
    /\ \E ws \in {v \in SUBSET {w \in WordUniverse : Len(w) = MaxLen} :
                       Cardinality(v) <= MaxLiveWords} :
           words = Ascending(ws)
    /\ \E s \in SUBSET Cells : order = CHOOSE p \in Perms(VariablesOf(s)) : TRUE
    /\ domains = [v \in Range(order) |-> Range(words)]
    /\ arcs = <<>>
    /\ ac3ret = None
    /\ assignment = EmptyAssignment
    /\ stack = <<>>
    /\ ret = None
    /\ result = None
    /\ out = None
    /\ pc = "solve"

(* solve() runs on: the interpreter takes the next step whenever there is *)
(* one                                                                    *)
SpecLive == InitLive /\ [][Next]_vars /\ WF_vars(Next)

---------------------------------------------------------------------------
(* consistent() and select_unassigned_variable() called directly *)

(* the orders of the variable set the direct calls are given *)
FnOrders(S) == LET p == CHOOSE p \in Perms(S) : TRUE IN {p, Reverse(p)}

FnWord(n, l) == [k \in 1..n |-> l]

(* the words the domains given to revise() are made of *)
ReviseWords == UNION {[1..n -> 1..NFnLetters] : n \in 1..MaxLen}

(* consistent() is given every assignment of words of at most MaxLen       *)
(* letters to variables of a grid of GridHeight x GridWidth cells;         *)
(* select_unassigned_variable() is given the grids of FnHeight x FnWidth   *)
(* cells with every choice of domains among FnWords and every set of       *)
(* assigned variables; revise() is given every pair (x, y) of variables of *)
(* a grid of GridHeight x GridWidth cells, held in arcs, with every choice *)
(* of node-consistent domains of x and y among ReviseWords.                *)
InitFn ==
    /\ ac3ret = None
    /\ stack = <<>>
    /\ ret = None
    /\ result = None
    /\ out = None
    /\ \/ /\ pc = "consistent"
          /\ arcs = <<>>
          /\ words = Ascending(WordUniverse)
          /\ \E s \in SUBSET Cells : order = CHOOSE p \in Perms(VariablesOf(s)) : TRUE
          /\ domains = [v \in Range(order) |-> Range(words)]
          /\ \E keys \in SUBSET Range(order) : assignment \in [keys -> WordUniverse]
       \/ /\ pc = "select"
          /\ arcs = <<>>
          /\ words = Ascending(FnWords)
          /\ \E s \in SUBSET FnCells : order \in FnOrders(VariablesOf(s))
          /\ \E letters \in [Range(order) -> SUBSET (1..NFnLetters)] :
                 domains = [v \in Range(order) |->
                               {FnWord(v.length, l) : l \in letters[v]}]
          /\ \E keys \in SUBSET Range(order) :
                 assignment = [v \in keys |-> FnWord(v.length, 1)]
       \/ /\ pc = "revise"
          /\ words = Ascending(ReviseWords)
          /\ assignment = EmptyAssignment
          /\ \E s \in SUBSET Cells : order = CHOOSE p \in Perms(VariablesOf(s)) : TRUE
          /\ \E x, y \in Range(order) :
                 /\ x # y
                 /\ arcs = <<<<x, y>>>>
                 /\ \E dx \in SUBSET {w \in ReviseWords : Len(w) = x.length} :
                        \E dy \in SUBSET {w \in ReviseWords : Len(w) = y.length} :
                            domains = [v \in Range(order) |->
                                IF v = x THEN dx
                                ELSE IF v = y THEN dy
                                ELSE {w \in ReviseWords : Len(w) = v.length}]

(* consistent(assignment) *)
CallConsistent ==
    /\ pc = "consistent"
    /\ out' = Some(Consistent(assignment))
    /\ pc' = "consistent_ret"
    /\ UNCHANGED <<words, order, domains, arcs, ac3ret, assignment, stack, ret, result>>

(* select_unassigned_variable(assignment) *)
CallSelect ==
    /\ pc = "select"
    /\ out' = IF Vars \ DOMAIN assignment = {} THEN None
              ELSE Some(SelectUnassignedVariable(domains, assignment))
    /\ pc' = "select_ret"
    /\ UNCHANGED <<words, order, domains, arcs, ac3ret, assignment, stack, ret, result>>

(* revise(x, y), for the pair (x, y) held in arcs *)
CallRevise ==
    /\ pc = "revise"
    /\ LET x == Head(arcs)[1]
           y == Head(arcs)[2]
       IN  IF ReviseRaises(domains, x, y)
           THEN /\ pc' = "error"
                /\ UNCHANGED <<domains, out>>
           ELSE /\ domains' = ReviseDomains(domains, x, y)
                /\ out' = Some(Revised(domains, x, y))
                /\ pc' = "revise_ret"
    /\ UNCHANGED <<words, order, arcs, ac3ret, assignment, stack, ret, result>>

NextFn ==
    \/ CallConsistent
    \/ CallSelect
    \/ CallRevise

SpecFn == InitFn /\ [][NextFn]_vars

---------------------------------------------------------------------------
(* solve() on the grids of FnHeight x FnWidth cells, where two variables   *)
(* can lie apart without crossing                                          *)

InitWide ==
    /\ \E ws \in WideVocabularies : words \in WordOrders(ws)
    /\ \E s \in SUBSET FnCells : order \in FnOrders(VariablesOf(s))
    /\ domains = [v \in Range(order) |-> Range(words)]
    /\ arcs = <<>>
    /\ ac3ret = None
    /\ assignment = EmptyAssignment
    /\ stack = <<>>
    /\ ret = None
    /\ result = None
    /\ out = None
    /\ pc = "solve"

SpecWide == InitWide /\ [][Next]_vars

---------------------------------------------------------------------------
(* What the claims speak of *)

PairwiseDistinct(a) == \A v1, v2 \in DOMAIN a : v1 # v2 => a[v1] # a[v2]

LengthsMatch(a) == \A v \in DOMAIN a : Len(a[v]) = v.length

OverlapsAgree(a) ==
    \A v1, v2 \in DOMAIN a :
        (v1 # v2 /\ Overlap(v1, v2) # None) =>
            a[v1][Overlap(v1, v2)[1] + 1] = a[v2][Overlap(v1, v2)[2] + 1]

IsSolution(a) ==
    /\ DOMAIN a = Vars
    /\ PairwiseDistinct(a)
    /\ LengthsMatch(a)
    /\ OverlapsAgree(a)

(* the complete consistent assignments that take every word from dom *)
SolutionsIn(dom) ==
    {a \in [Vars -> Range(words)] : (\A v \in Vars : a[v] \in dom[v]) /\ IsSolution(a)}

ArcConsistent(dom, x, y) ==
    \A w \in dom[x] :
        \E w2 \in dom[y] :
            w[Overlap(x, y)[1] + 1] = w2[Overlap(x, y)[2] + 1] /\ w # w2

WordsOfLength(n) == {w \in Range(words) : Len(w) = n}

ActivePath == {stack[k].var : k \in DOMAIN stack}

(* C1: solve() returns None or an assignment with an entry for every        *)
(* variable, pairwise distinct words, each of its variable's length, every  *)
(* neighbouring pair agreeing at its overlap: never a partial or            *)
(* inconsistent assignment.                                                 *)
C1_SolveTotal ==
    pc = "done" => (result = None \/ IsSolution(result[1]))

(* a solved grid of four crossing variables, after ac3() returned True *)
C1_Witness ==
    /\ pc = "done"
    /\ result # None
    /\ Cardinality(Vars) = 4
    /\ ac3ret = Some(TRUE)

(* C2: solve() returns None only when no complete consistent assignment     *)
(* maps every variable to a word of its domain as propagation left it.      *)
C2_FailureMeansNoSolution ==
    (pc = "done" /\ result = None) => SolutionsIn(domains) = {}

(* C3: a backtrack call that returns failure leaves the assignment as it    *)
(* was on entry, and the assignment holds no entry for a variable outside   *)
(* the active path.                                                         *)
C3_AssignmentUndone ==
    /\ (pc = "loop" /\ Head(stack).taken = Len(Head(stack).ordered_values))
           => assignment = Head(stack).entry
    /\ (pc \in {"call", "loop"} \/ (pc = "ret" /\ ret = None))
           => DOMAIN assignment \subseteq ActivePath

(* C4: when ac3() started from the full arc list returns True, every word   *)
(* of domain(x) has, for every neighbour y of x, a different word of        *)
(* domain(y) that agrees with it at the overlap.                            *)
C4_ArcConsistentAfterAc3 ==
    ac3ret = Some(TRUE) =>
        \A x \in Vars : \A y \in Neighbors(x) : ArcConsistent(domains, x, y)

(* ac3() returned True after pruning a domain of a grid of four variables, *)
(* leaving every domain with a word                                        *)
C4_Witness ==
    /\ ac3ret = Some(TRUE)
    /\ Cardinality(Vars) = 4
    /\ \A v \in Vars : domains[v] # {}
    /\ \E v \in Vars : domains[v] # WordsOfLength(v.length)

(* C5: ac3() returns True only if no domain is empty when it returns, and   *)
(* False if one or more domains are empty, those empty before propagation   *)
(* included.                                                                *)
C5_Ac3ReportsEmptiness ==
    ac3ret # None => (ac3ret = Some(TRUE) <=> \A v \in Vars : domains[v] # {})

(* C6: after enforce_node_consistency() the domain of every variable is     *)
(* exactly the set of vocabulary words of the variable's length.            *)
C6_NodeConsistencyExact ==
    pc = "ac3_begin" => \A v \in Vars : domains[v] = WordsOfLength(v.length)

(* node consistency removed a word from a domain and kept another *)
C6_Witness ==
    /\ pc = "ac3_begin"
    /\ \E v \in Vars : domains[v] # {} /\ domains[v] # Range(words)

(* C7: consistent() returns true exactly when the assigned words are       *)
(* pairwise distinct, each has its variable's length, and every pair of    *)
(* assigned neighbours agrees at its overlap; the assignment and the       *)
(* domains are as they were before the call.                               *)
C7_ConsistentIff ==
    pc = "consistent_ret" =>
        /\ out = Some(/\ PairwiseDistinct(assignment)
                      /\ LengthsMatch(assignment)
                      /\ OverlapsAgree(assignment))
        /\ domains = [v \in Vars |-> Range(words)]

(* consistent() returned True for an assignment of crossing variables *)
C7_Witness ==
    /\ pc = "consistent_ret"
    /\ out = Some(TRUE)
    /\ \E v1, v2 \in DOMAIN assignment : v1 # v2 /\ Overlap(v1, v2) # None
    /\ \E v1, v2 \in DOMAIN assignment : v1 # v2 /\ Overlap(v1, v2) = None

(* C8: with a variable left unassigned, select_unassigned_variable returns *)
(* an unassigned variable whose domain is the smallest among the           *)
(* unassigned ones and that has the most neighbours among the unassigned   *)
(* variables with a domain of that size.                                   *)
C8_SelectMrvDegree ==
    (pc = "select_ret" /\ Vars \ DOMAIN assignment # {}) =>
        /\ out # None
        /\ LET var == out[1]
               unassigned == Vars \ DOMAIN assignment
           IN  /\ var \in unassigned
               /\ \A u \in unassigned :
                      Cardinality(domains[var]) <= Cardinality(domains[u])
               /\ \A u \in unassigned :
                      Cardinality(domains[u]) = Cardinality(domains[var]) =>
                          Cardinality(Neighbors(u)) <= Cardinality(Neighbors(var))

(* the variable returned won a tie on the domain size by its degree, and   *)
(* another unassigned variable has a larger domain                         *)
C8_Witness ==
    /\ pc = "select_ret"
    /\ out # None
    /\ \E u \in Vars \ DOMAIN assignment :
           /\ Cardinality(domains[u]) = Cardinality(domains[out[1]])
           /\ Cardinality(Neighbors(u)) < Cardinality(Neighbors(out[1]))
    /\ \E u \in Vars \ DOMAIN assignment :
           Cardinality(domains[u]) > Cardinality(domains[out[1]])
    /\ DOMAIN assignment # {}

(* the score of the claim: the (neighbour, candidate) pairs whose          *)
(* candidate differs from w at the overlap                                 *)
RuledOut(var, w) ==
    Cardinality({p \in Neighbors(var) \X Range(words) :
                    /\ p[2] \in domains[p[1]]
                    /\ w[Overlap(var, p[1])[1] + 1] # p[2][Overlap(var, p[1])[2] + 1]})

(* C9: order_domain_values returns every word of domain(var) exactly once, *)
(* in order of non-decreasing score, the score counting the candidates of  *)
(* all neighbours, assigned or not, that differ at the overlap.            *)
C9_OrderedByRuledOut ==
    \A k \in DOMAIN stack :
        LET var == stack[k].var
            vals == stack[k].ordered_values
        IN  /\ Range(vals) = domains[var]
            /\ Len(vals) = Cardinality(domains[var])
            /\ \A m \in 1..(Len(vals) - 1) :
                   RuledOut(var, vals[m]) <= RuledOut(var, vals[m + 1])

(* a list of three or more values that the sort reordered, for a variable  *)
(* with an assigned neighbour                                              *)
C9_Witness ==
    /\ stack # <<>>
    /\ LET var == Head(stack).var
           vals == Head(stack).ordered_values
       IN  /\ Len(vals) >= 3
           /\ vals # InWordOrder(domains[var])
           /\ RuledOut(var, vals[1]) < RuledOut(var, vals[Len(vals)])
           /\ Neighbors(var) \cap DOMAIN Head(stack).entry # {}

(* C10: when some domain is empty after node consistency and AC-3, in       *)
(* particular when ac3() returned False, solve() returns None.              *)
C10_WipeoutMeansNoSolution ==
    (pc = "done" /\ ((\E v \in Vars : domains[v] = {}) \/ ac3ret = Some(FALSE)))
        => result = None

(* ac3() emptied the domain of one of two crossing variables, the search   *)
(* ran all the same and solve() returned None                              *)
C10_Witness ==
    /\ pc = "done"
    /\ ac3ret = Some(FALSE)
    /\ result = None
    /\ \E v \in Vars : domains[v] # {}

NonOverlapping == \A x, y \in Vars : x # y => Overlap(x, y) = None

EnoughWords ==
    \A L \in 1..FnMaxLen :
        Cardinality(WordsOfLength(L)) >= Cardinality({v \in Vars : v.length = L})

(* C11: on a grid of one or more variables none of which crosses another,  *)
(* with a vocabulary holding for every length as many words as there are   *)
(* variables of that length or more, solve() returns an assignment with an *)
(* entry for every variable, pairwise distinct words, each of its          *)
(* variable's length.                                                      *)
C11_NonOverlappingSolved ==
    (pc = "done" /\ Vars # {} /\ NonOverlapping /\ EnoughWords) =>
        /\ result # None
        /\ DOMAIN result[1] = Vars
        /\ PairwiseDistinct(result[1])
        /\ LengthsMatch(result[1])
        /\ Cardinality(Range(result[1])) = Cardinality(Vars)

(* two variables that lie apart, exactly as many words of their length,   *)
(* and a word of another length: solve() returned an assignment           *)
C11_Witness ==
    /\ pc = "done"
    /\ Cardinality(Vars) = 2
    /\ NonOverlapping
    /\ EnoughWords
    /\ Cardinality(Range(words)) = 3
    /\ \A v \in Vars : Cardinality(WordsOfLength(v.length)) = 2
    /\ result # None

(* C12: solve() raises no exception: ac3 removes only a neighbour from the *)
(* neighbour set, no word is read past its end, backtrack never goes on    *)
(* with no variable selected. Every step leads to a position of solve()   *)
(* from which it goes on, or to its return, with None or with the          *)
(* assignment.                                                             *)
C12_NoErrorState ==
    /\ pc \in {"solve", "ac3_begin", "ac3", "call", "loop", "ret", "done"}
    /\ pc = "loop" =>
           /\ stack # <<>>
           /\ Head(stack).taken <= Len(Head(stack).ordered_values)
    /\ pc = "done" => (result = None \/ result = Some(assignment))

(* solve() returned None after ac3() had pruned a domain and requeued arcs *)
(* and a backtrack call had exhausted its values with an entry left in the *)
(* assignment                                                              *)
C12_Witness ==
    /\ pc = "done"
    /\ result = None
    /\ ac3ret = Some(TRUE)
    /\ \E v \in Vars : domains[v] # {} /\ domains[v] # WordsOfLength(v.length)
    /\ DOMAIN assignment # {}

(* C13: revise(x, y) with an overlap (i, j) leaves in domain(x) exactly    *)
(* the words wx it held for which a word wy of domain(y) has wx[i] = wy[j] *)
(* and wx # wy, and returns True exactly when it removed a word.           *)
C13_ReviseExact ==
    [][(pc = "revise" /\ Overlap(Head(arcs)[1], Head(arcs)[2]) # None) =>
          LET x == Head(arcs)[1]
              y == Head(arcs)[2]
              i == Overlap(x, y)[1]
              j == Overlap(x, y)[2]
          IN  /\ pc' = "revise_ret"
              /\ domains'[x] =
                     {wx \in domains[x] :
                         \E wy \in domains[y] : wx[i + 1] = wy[j + 1] /\ wx # wy}
              /\ out' = Some(\E wx \in domains[x] : wx \notin domains'[x])]_vars

(* revise() returned True after removing a word whose only support in      *)
(* domain(y) was the word itself, and kept another                         *)
C13_Witness ==
    /\ pc = "revise_ret"
    /\ out = Some(TRUE)
    /\ LET x == Head(arcs)[1]
           y == Head(arcs)[2]
       IN  /\ Overlap(x, y) # None
           /\ domains[x] # {}
           /\ \E w \in domains[y] :
                  /\ w \notin domains[x]
                  /\ Len(w) = x.length
                  /\ w[Overlap(x, y)[1] + 1] = w[Overlap(x, y)[2] + 1]
                  /\ \A wy \in domains[y] \ {w} :
                         w[Overlap(x, y)[1] + 1] # wy[Overlap(x, y)[2] + 1]

(* C14: revise(x, y) changes the domain of no variable other than x, and   *)
(* with no overlap between x and y it changes no domain and returns False. *)
C14_ReviseFrame ==
    [][pc = "revise" =>
          LET x == Head(arcs)[1]
              y == Head(arcs)[2]
          IN  /\ \A v \in Vars \ {x} : domains'[v] = domains[v]
              /\ DOMAIN domains' = DOMAIN domains
              /\ Overlap(x, y) = None => (domains' = domains /\ out' = Some(FALSE))]_vars

(* revise() returned False for two variables that do not cross, on a grid  *)
(* with a third variable                                                   *)
C14_Witness ==
    /\ pc = "revise_ret"
    /\ out = Some(FALSE)
    /\ Overlap(Head(arcs)[1], Head(arcs)[2]) = None
    /\ domains[Head(arcs)[1]] # {}
    /\ domains[Head(arcs)[2]] # {}
    /\ Cardinality(Vars) > 2

(* C15: at the start of every iteration of the loop of ac3(), every arc    *)
(* (x, y) of neighbours that is not in the queue is arc consistent under   *)
(* the current domains; and an iteration that prunes domain(x) against y   *)
(* without emptying it removes the head of the queue and appends to its    *)
(* tail the arc (z, x) of every neighbour z of x other than y.             *)
C15_QueueInvariant ==
    /\ [](pc = "ac3" =>
             \A x \in Vars : \A y \in Neighbors(x) :
                 (\A k \in DOMAIN arcs : arcs[k] # <<x, y>>) =>
                     ArcConsistent(domains, x, y))
    /\ [][(pc = "ac3" /\ arcs # <<>> /\ domains' # domains
              /\ domains'[Head(arcs)[1]] # {}) =>
             LET x == Head(arcs)[1]
                 y == Head(arcs)[2]
                 n == Len(arcs) - 1
                 added == SubSeq(arcs', n + 1, Len(arcs'))
             IN  /\ pc' = "ac3"
                 /\ SubSeq(arcs', 1, n) = Tail(arcs)
                 /\ Range(added) = {<<z, x>> : z \in Neighbors(x) \ {y}}
                 /\ Len(added) = Cardinality(Neighbors(x) \ {y})]_vars

(* the loop of ac3() on four variables after a revision pruned a domain    *)
(* and requeued an arc: arcs are waiting and others have left the queue    *)
C15_Witness ==
    /\ pc = "ac3"
    /\ Cardinality(Vars) = 4
    /\ arcs # <<>>
    /\ \A v \in Vars : domains[v] # {}
    /\ \E v \in Vars : domains[v] # WordsOfLength(v.length)
    /\ \E x \in Vars : \E y \in Neighbors(x) : \A k \in DOMAIN arcs : arcs[k] # <<x, y>>
    /\ Len(arcs) < Len(AllArcs)

(* C16: from the first call of backtrack() until solve() returns, no step  *)
(* of backtrack, select_unassigned_variable, order_domain_values,          *)
(* consistent or assignment_complete changes the domain of a variable.     *)
C16_DomainsReadOnly ==
    [][(pc \in {"call", "loop", "ret"}) => (domains' = domains)]_vars

(* three nested backtrack calls, the innermost past its second value, on   *)
(* domains that ac3() had pruned                                           *)
C16_Witness ==
    /\ pc = "loop"
    /\ Len(stack) >= 3
    /\ Head(stack).taken >= 2
    /\ \E v \in Vars : domains[v] # WordsOfLength(v.length)
    /\ \A v \in Vars : domains[v] # {}

(* the backtrack() calls that have not returned: the frames of the stack   *)
(* and the call that has not yet selected its variable                     *)
NestedCalls == Len(stack) + (IF pc = "call" THEN 1 ELSE 0)

(* C17: solve() terminates: the loop of ac3() ends, the search returns,    *)
(* and the backtrack calls nested at any moment are never more than the    *)
(* variables plus one.                                                     *)
C17_Terminates ==
    /\ <>(pc = "done" /\ ac3ret # None)
    /\ [](NestedCalls <= Cardinality(Vars) + 1)

(* the deepest nesting: a call entered with each of two crossing variables *)
(* assigned by a call that is still active, after ac3() pruned a domain    *)
C17_Witness ==
    /\ pc = "call"
    /\ Cardinality(Vars) = 2
    /\ NestedCalls = Cardinality(Vars) + 1
    /\ \E v \in Vars : domains[v] # WordsOfLength(v.length)

(* C18: on entry to every backtrack() call and on every return from one,   *)
(* with a solution or with None, the assignment maps no two variables to   *)
(* the same word.                                                          *)
C18_DistinctAtCallBoundaries ==
    pc \in {"call", "ret"} => PairwiseDistinct(assignment)

(* the complete consistent assignments of vocabulary words: each word has  *)
(* its variable's length, so it is in the node-consistent domain (the      *)
(* words are pairwise distinct: fewer words than variables leave none)     *)
Solutions ==
    IF Cardinality(Range(words)) < Cardinality(Vars) THEN {}
    ELSE {a \in [Vars -> Range(words)] : IsSolution(a)}

(* C19: during ac3() and when it returns, every word of every complete     *)
(* consistent assignment over the node-consistent domains is still in the  *)
(* domain of its variable; ac3() returns False only if there is no such    *)
(* assignment. The domains only shrink while ac3() runs, so the words that  *)
(* are in them when it returns were in them at every step.                 *)
C19_Ac3KeepsSolutions ==
    /\ []((pc = "call" /\ stack = <<>>) =>
             /\ \A a \in Solutions : \A v \in Vars : a[v] \in domains[v]
             /\ ac3ret = Some(FALSE) => Solutions = {})
    /\ [][pc = "ac3" => \A v \in Vars : domains'[v] \subseteq domains[v]]_vars

(* ac3() returned True on four variables after pruning a domain, and a     *)
(* complete consistent assignment exists                                   *)
C19_Witness ==
    /\ pc = "call"
    /\ stack = <<>>
    /\ ac3ret = Some(TRUE)
    /\ Cardinality(Vars) = 4
    /\ Solutions # {}
    /\ \E v \in Vars : domains[v] # WordsOfLength(v.length)

(* C20: at every moment of the search and when solve() returns, every word *)
(* stored in the assignment is in the domain of the variable it is stored  *)
(* under, as node consistency and ac3() left it; an assignment that        *)
(* solve() returns maps every variable to a word of its domain, which is a *)
(* word of the vocabulary.                                                 *)
C20_AssignedWordsInDomains ==
    /\ pc \in {"call", "loop", "ret", "done"} =>
           \A v \in DOMAIN assignment : assignment[v] \in domains[v]
    /\ (pc = "done" /\ result # None) =>
           \A v \in Vars :
               /\ v \in DOMAIN result[1]
               /\ result[1][v] \in domains[v]
               /\ result[1][v] \in Range(words)

(* solve() returned an assignment on domains that ac3() had pruned; one of *)
(* the words it uses was a candidate of a single variable                  *)
C20_Witness ==
    /\ pc = "done"
    /\ result # None
    /\ Cardinality(Vars) >= 2
    /\ \E v \in Vars : domains[v] # WordsOfLength(v.length)
    /\ \E v \in Vars : \A u \in Vars \ {v} : result[1][v] \notin domains[u]

====
